---- MODULE Spec2Model ----
(***************************************************************************)
(* Model of cl (src/include/cl/cl.h): the option and command registries,   *)
(* their registration checks, and cl::parse with its tokenizer, candidate  *)
(* loop, wildcard rollback and binding.                                    *)
(*                                                                         *)
(* A string (std::string_view) is a sequence of one-character strings, so  *)
(* that strip_dash, Options::parse and Options::is_short work on the       *)
(* characters as the code does.  An argument vector is argv[1..], i.e. the *)
(* program name argv[0] is left out: args[1] is the command name.          *)
(***************************************************************************)
EXTENDS Integers, Sequences, FiniteSets, TLC

VARIABLES
    optItems,       \* Options::items
    optValid,       \* Options::valid
    usageItems,     \* Usage::items
    usageCommands,  \* Usage::commands
    help_on_exit,   \* cl::help_on_exit
    pc,             \* "idle" | "match" (inside the candidate loop) | "done" | "exit"
    argvIn,         \* the argument vector of the current / last parse
    mopts,          \* parse local: option full name -> raw value
    margs,          \* parse local: positional tokens (padded while matching)
    basemargs,      \* parse local: copy of margs kept for rollback
    v,              \* parse local: the result mapping being built
    idx,            \* parse local: position of the candidate loop in Usage::items
    rejected,       \* positions of the wildcard candidates rolled back so far
    matched,        \* position of the command that returned, 0 if none
    invoked,        \* handler calls of the current parse: <<position, mapping>>
    exitCode,       \* 0 while running, else the status passed to std::exit
    err,            \* which diagnostic ended the process
    memo            \* history: one earlier parse that returned [argv, result, later]

vars == <<optItems, optValid, usageItems, usageCommands, help_on_exit, pc,
          argvIn, mopts, margs, basemargs, v, idx, rejected, matched, invoked,
          exitCode, err, memo>>

regVars == <<optItems, optValid, usageItems, usageCommands>>
parseVars == <<argvIn, mopts, margs, basemargs, v, idx, rejected, matched, invoked>>

----------------------------------------------------------------------------
(* Bounds *)

\* most tokens after the command name in an argument vector
MaxArgs == 2
\* most commands held by Usage::items
MaxCmds == 2
\* most options in one Options{...} list
MaxOpts == 2

----------------------------------------------------------------------------
(* Values: cl::Arg, a variant of monostate / bool / string_view *)

Null == [t |-> "null", b |-> FALSE, s |-> <<>>]
Bool(x) == [t |-> "bool", b |-> x, s |-> <<>>]
Str(x) == [t |-> "str", b |-> FALSE, s |-> x]

\* an unordered_map: a function on its keys
EmptyMap == <<>>

\* m[k] = x (operator[] assignment: inserts or overwrites)
Put(m, k, x) == (k :> x) @@ m

\* m.try_emplace(k, x): the first insertion of a key wins
TryEmplace(m, k, x) == IF k \in DOMAIN m THEN m ELSE Put(m, k, x)

None == [none |-> TRUE]

----------------------------------------------------------------------------
(* Strings *)

\* impl::strip_dash: drops at most two leading dashes
strip_dash(s) ==
    IF s # <<>> /\ Head(s) = "-"
    THEN LET t == Tail(s) IN
         IF t # <<>> /\ Head(t) = "-" THEN Tail(t) ELSE t
    ELSE s

\* position of the first '=' in s, 0 if there is none
FirstEq(s) ==
    IF \E i \in 1..Len(s) : s[i] = "="
    THEN CHOOSE i \in 1..Len(s) : s[i] = "=" /\ \A j \in 1..(i - 1) : s[j] # "="
    ELSE 0

\* Options::parse: the name before '=' without dashes, and the text after '='
OptionsParse(arg) ==
    LET i == FirstEq(arg) IN
    IF i = 0 THEN [name |-> strip_dash(arg), val |-> <<>>]
    ELSE [name |-> strip_dash(SubSeq(arg, 1, i - 1)),
          val |-> IF i < Len(arg) THEN SubSeq(arg, i + 1, Len(arg)) ELSE <<>>]

\* Options::is_short: exactly one leading dash
is_short(n) ==
    LET d1 == n # <<>> /\ Head(n) = "-"
        n1 == IF d1 THEN Tail(n) ELSE n
        d2 == n1 # <<>> /\ Head(n1) = "-"
    IN IF d2 THEN FALSE ELSE d1

----------------------------------------------------------------------------
(* Options registry *)

Opt(s, n, f) == [shortname |-> s, name |-> n, flag |-> f]

OptHelp == Opt(<<"h">>, <<"h", "e", "l", "p">>, TRUE)
OptVersion == Opt(<<"v">>, <<"v", "e", "r", "s", "i", "o", "n">>, TRUE)

\* a complete loop that looks up and inserts the full names only
RECURSIVE CompleteLoopNames(_, _, _)
CompleteLoopNames(items, i, valid) ==
    IF i > Len(items)
    THEN [ok |-> TRUE, err |-> "none", valid |-> valid, nullprint |-> FALSE]
    ELSE IF items[i].name \in valid
         THEN [ok |-> FALSE, err |-> "Duplicate Option", valid |-> valid,
               nullprint |-> FALSE]
    ELSE CompleteLoopNames(items, i + 1, valid \cup {items[i].name})

\* The loop of Options::complete over items[i..]: every name and short name
\* must be new to Options::valid, then both are inserted.  The diagnostic
\* for a duplicate short name passes shortname.data() to fputs, which is a
\* null pointer when the short name was left out (nullprint).
RECURSIVE CompleteLoop(_, _, _)
CompleteLoop(items, i, valid) ==
    IF i > Len(items)
    THEN [ok |-> TRUE, err |-> "none", valid |-> valid, nullprint |-> FALSE]
    ELSE IF items[i].name \in valid
         THEN [ok |-> FALSE, err |-> "Duplicate Option", valid |-> valid,
               nullprint |-> FALSE]
    ELSE IF items[i].shortname \in valid
         THEN [ok |-> FALSE, err |-> "Duplicate Short Option", valid |-> valid,
               nullprint |-> items[i].shortname = <<>>]
    ELSE CompleteLoop(items, i + 1,
                      valid \cup {items[i].name, items[i].shortname})

\* Options::complete: help and version go first, then the uniqueness loop
complete(items, valid) ==
    LET all == <<OptHelp, OptVersion>> \o items
        r == CompleteLoop(all, 1, valid)
    IN [ok |-> r.ok, err |-> r.err, items |-> all, valid |-> r.valid,
        nullprint |-> r.nullprint]

\* Options::get_option: first option whose short or full name is arg;
\* nothing for an arg shorter than two characters
get_option(arg, items) ==
    IF Len(arg) < 2 THEN None
    ELSE IF \E i \in 1..Len(items) : arg = items[i].shortname \/ arg = items[i].name
         THEN items[CHOOSE i \in 1..Len(items) :
                        /\ (arg = items[i].shortname \/ arg = items[i].name)
                        /\ \A j \in 1..(i - 1) :
                               arg # items[j].shortname /\ arg # items[j].name]
         ELSE None

----------------------------------------------------------------------------
(* Commands *)

\* impl::Param without operator--: a positional slot
Param(val, required) ==
    [kind |-> "param", val |-> val, items |-> <<>>, required |-> required,
     option |-> FALSE]

\* impl::Param with operator--: a reference to an option
OptRef(val, required) ==
    [kind |-> "param", val |-> val, items |-> <<>>, required |-> required,
     option |-> TRUE]

\* impl::One: a choice group
One(items, required) ==
    [kind |-> "one", val |-> <<>>, items |-> items, required |-> required,
     option |-> FALSE]

\* impl::Cmd as constructed: no slots, no option references
Cmd(name, any, entry) ==
    [name |-> name, any |-> any, args |-> <<>>, options |-> <<>>,
     entry |-> entry, mincount |-> 0]

\* One::contains
contains(one, arg) == \E i \in 1..Len(one.items) : arg = one.items[i]

\* an is_prev_required that never objects
AlwaysPrevRequired(cmd) == TRUE

\* Cmd::is_prev_required
is_prev_required(cmd) ==
    cmd.args = <<>> \/ cmd.args[Len(cmd.args)].required

\* ParamPrinter::dump of an option reference reaches impl::abort when
\* Options::get_option does not resolve it; impl::help dumps the option
\* references of every registered command (after Options::complete when the
\* option list is still empty).
HelpAborts(cmds, items) ==
    LET its == IF items = <<>> THEN <<OptHelp, OptVersion>> ELSE items IN
    \E i \in 1..Len(cmds) : \E j \in 1..Len(cmds[i].options) :
        get_option(cmds[i].options[j].val, its) = None

\* impl::error_and_exit: exit(2) after impl::help() when cl::help_on_exit
ErrorExitCode(cmds, items, hoe) ==
    IF hoe /\ HelpAborts(cmds, items) THEN 3 ELSE 2

\* impl::help_and_exit: exit(1) after impl::help() when cl::help_on_exit
HelpExitCode(cmds, items, hoe) ==
    IF hoe /\ HelpAborts(cmds, items) THEN 3 ELSE 1

\* Cmd::operator, : an option reference is checked against Options::valid and
\* appended to options; a slot passes check_required (a required slot may
\* not follow an optional one; mincount counts the required slots) and is
\* appended to args.
Comma(cmd, rhs, valid) ==
    IF rhs.option
    THEN IF rhs.val \notin valid
         THEN [ok |-> FALSE, err |-> "Unknown option", help |-> FALSE, cmd |-> cmd]
         ELSE [ok |-> TRUE, err |-> "none", help |-> FALSE,
               cmd |-> [cmd EXCEPT !.options = Append(@, rhs)]]
    ELSE IF rhs.required /\ ~is_prev_required(cmd)
         THEN [ok |-> FALSE, err |-> "Positional cannot be required",
               help |-> TRUE, cmd |-> cmd]
         ELSE [ok |-> TRUE, err |-> "none", help |-> FALSE,
               cmd |-> [cmd EXCEPT
                          !.args = Append(@, rhs),
                          !.mincount = IF rhs.required THEN @ + 1 ELSE @]]

\* cl::cmd(name, args...): the fold (Cmd{name}, ..., args) from element i on
RECURSIVE CmdFold(_, _, _, _)
CmdFold(cmd, elems, i, valid) ==
    IF i > Len(elems) THEN [ok |-> TRUE, err |-> "none", help |-> FALSE, cmd |-> cmd]
    ELSE LET r == Comma(cmd, elems[i], valid) IN
         IF r.ok THEN CmdFold(r.cmd, elems, i + 1, valid) ELSE r

\* a command as written by the caller: its name, wildcard mark, elements, handler
CmdSpec(name, any, elems, entry) ==
    [name |-> name, any |-> any, elems |-> elems, entry |-> entry]

cl_cmd(spec, valid) == CmdFold(Cmd(spec.name, spec.any, spec.entry), spec.elems, 1, valid)

\* the cl::cmd(...) expressions of one Usage{...} list, evaluated in order
RECURSIVE BuildAll(_, _, _, _)
BuildAll(specs, i, valid, built) ==
    IF i > Len(specs)
    THEN [ok |-> TRUE, err |-> "none", help |-> FALSE, cmds |-> built]
    ELSE LET r == cl_cmd(specs[i], valid) IN
         IF r.ok THEN BuildAll(specs, i + 1, valid, Append(built, r.cmd))
         ELSE [ok |-> FALSE, err |-> r.err, help |-> r.help, cmds |-> built]

\* Usage::Usage: each command's name must be new to Usage::commands
RECURSIVE UsageLoop(_, _, _, _)
UsageLoop(cmds, i, items, commands) ==
    IF i > Len(cmds) THEN [ok |-> TRUE, items |-> items, commands |-> commands]
    ELSE IF cmds[i].name \in commands
         THEN [ok |-> FALSE, items |-> items, commands |-> commands]
    ELSE UsageLoop(cmds, i + 1, Append(items, cmds[i]),
                   commands \cup {cmds[i].name})

----------------------------------------------------------------------------
(* The pre-seeded result mapping *)

RECURSIVE SeedItems(_, _, _)
SeedItems(m, items, i) ==
    IF i > Len(items) THEN m
    ELSE SeedItems(TryEmplace(m, items[i], Bool(FALSE)), items, i + 1)

RECURSIVE SeedArgs(_, _, _)
SeedArgs(m, args, i) ==
    IF i > Len(args) THEN m
    ELSE IF args[i].kind = "one"
         THEN SeedArgs(SeedItems(m, args[i].items, 1), args, i + 1)
    ELSE IF ~args[i].option
         THEN SeedArgs(TryEmplace(m, args[i].val, Null), args, i + 1)
    ELSE SeedArgs(m, args, i + 1)

RECURSIVE SeedCmds(_, _, _)
SeedCmds(m, cmds, i) ==
    IF i > Len(cmds) THEN m
    ELSE SeedCmds(SeedArgs(TryEmplace(m, cmds[i].name, Bool(FALSE)),
                           cmds[i].args, 1),
                  cmds, i + 1)

RECURSIVE SeedOpts(_, _, _)
SeedOpts(m, items, i) ==
    IF i > Len(items) THEN m
    ELSE SeedOpts(TryEmplace(m, items[i].name,
                             IF items[i].flag THEN Bool(FALSE) ELSE Null),
                  items, i + 1)

\* an init_value that seeds the keys of the commands only
init_value_commands(cmds, items) == SeedCmds(EmptyMap, cmds, 1)

\* impl::init_value: false for command names, choice alternatives and flags,
\* null for positionals and value options
init_value(cmds, items) == SeedOpts(SeedCmds(EmptyMap, cmds, 1), items, 1)

----------------------------------------------------------------------------
(* cl::parse: tokenizer *)

\* a tokenizer loop that takes every token after the first positional token
\* for a positional token
RECURSIVE TokLoopOptionsFirst(_, _, _, _, _, _)
TokLoopOptionsFirst(args, i, items, mo, ma, ub) ==
    IF i > Len(args) THEN [err |-> "none", mopts |-> mo, margs |-> ma]
    ELSE LET arg == args[i] IN
    IF arg = <<>> /\ ub THEN [err |-> "trap", mopts |-> mo, margs |-> ma]
    ELSE IF ma = <<>> /\ arg # <<>> /\ Head(arg) = "-"
    THEN LET p == OptionsParse(arg)
             opt == get_option(p.name, items)
         IN IF opt = None
            THEN [err |-> "Invalid option", mopts |-> mo, margs |-> ma]
            ELSE IF ~opt.flag
            THEN IF is_short(arg)
                 THEN IF i + 1 > Len(args)
                      THEN [err |-> "Invalid short option format",
                            mopts |-> mo, margs |-> ma]
                      ELSE TokLoopOptionsFirst(args, i + 2, items,
                                   Put(mo, opt.name, args[i + 1]), ma, ub)
                 ELSE IF p.val = <<>>
                      THEN [err |-> "Invalid option format",
                            mopts |-> mo, margs |-> ma]
                      ELSE TokLoopOptionsFirst(args, i + 1, items,
                                   Put(mo, opt.name, p.val), ma, ub)
            ELSE TokLoopOptionsFirst(args, i + 1, items,
                                     Put(mo, opt.name, arg), ma, ub)
    ELSE TokLoopOptionsFirst(args, i + 1, items, mo, Append(ma, arg), ub)

\* The tokenizer loop from args[i] on.  arg.front() on an empty token is
\* undefined: a build with library assertions traps (ub), any other build
\* reads the terminating NUL, which is not a dash.
RECURSIVE TokLoop(_, _, _, _, _, _)
TokLoop(args, i, items, mo, ma, ub) ==
    IF i > Len(args) THEN [err |-> "none", mopts |-> mo, margs |-> ma]
    ELSE LET arg == args[i] IN
    IF arg = <<>> /\ ub THEN [err |-> "trap", mopts |-> mo, margs |-> ma]
    ELSE IF arg # <<>> /\ Head(arg) = "-"
    THEN LET p == OptionsParse(arg)
             opt == get_option(p.name, items)
         IN IF opt = None
            THEN [err |-> "Invalid option", mopts |-> mo, margs |-> ma]
            ELSE IF ~opt.flag
            THEN IF is_short(arg)
                 THEN IF i + 1 > Len(args)
                      THEN [err |-> "Invalid short option format",
                            mopts |-> mo, margs |-> ma]
                      ELSE TokLoop(args, i + 2, items,
                                   Put(mo, opt.name, args[i + 1]), ma, ub)
                 ELSE IF p.val = <<>>
                      THEN [err |-> "Invalid option format",
                            mopts |-> mo, margs |-> ma]
                      ELSE TokLoop(args, i + 1, items,
                                   Put(mo, opt.name, p.val), ma, ub)
            ELSE TokLoop(args, i + 1, items, Put(mo, opt.name, arg), ma, ub)
    ELSE TokLoop(args, i + 1, items, mo, Append(ma, arg), ub)

\* mopts and margs are locals of parse: every parse starts them empty
Tokenize(args, items, ub) == TokLoop(args, 2, items, EmptyMap, <<>>, ub)

StrHelpShort == <<"-", "h">>
StrHelpLong == <<"-", "-", "h", "e", "l", "p">>
StrVersionShort == <<"-", "v">>
StrVersionLong == <<"-", "-", "v", "e", "r", "s", "i", "o", "n">>

\* Options::empty() ? Options::complete() : nothing; then init_value reads
\* the completed list
EnsureComplete(items, valid) ==
    IF items = <<>> THEN complete(items, valid)
    ELSE [ok |-> TRUE, err |-> "none", items |-> items, valid |-> valid,
          nullprint |-> FALSE]

\* the option list as it was before parse completed it
SeededOptionsEarly(items, valid) == items

\* the option list init_value reads: parse completes the list before it
\* seeds the mapping
SeededOptions(items, valid) == EnsureComplete(items, valid).items

\* cl::parse up to the candidate loop
Prologue(args, items, valid, cmds, hoe, ub) ==
    LET stay == [items |-> items, valid |-> valid, mopts |-> EmptyMap,
                 margs |-> <<>>, v |-> EmptyMap]
    IN
    IF Len(args) = 0
    THEN IF cmds # <<>>
         THEN [kind |-> "exit", code |-> HelpExitCode(cmds, items, hoe),
               err |-> "help"] @@ stay
         ELSE [kind |-> "return", code |-> 0, err |-> "none"] @@ stay
    ELSE
    LET reg == EnsureComplete(items, valid)
        now == [items |-> reg.items, valid |-> reg.valid, mopts |-> EmptyMap,
                margs |-> <<>>, v |-> EmptyMap]
    IN
    IF ~reg.ok THEN [kind |-> "exit", code |-> 2, err |-> reg.err] @@ now
    ELSE IF Len(args) = 1 /\ args[1] \in {StrHelpShort, StrHelpLong}
    THEN [kind |-> "exit", code |-> HelpExitCode(cmds, reg.items, hoe),
          err |-> "help"] @@ now
    ELSE IF Len(args) = 1 /\ args[1] \in {StrVersionShort, StrVersionLong}
    THEN [kind |-> "exit", code |-> 1, err |-> "version"] @@ now
    ELSE
    LET tok == Tokenize(args, reg.items, ub) IN
    IF tok.err = "trap"
    THEN [kind |-> "exit", code |-> 134, err |-> "trap"] @@ now
    ELSE IF tok.err # "none"
    THEN [kind |-> "exit", code |-> ErrorExitCode(cmds, reg.items, hoe),
          err |-> tok.err] @@ now
    ELSE [kind |-> "match", code |-> 0, err |-> "none", items |-> reg.items,
          valid |-> reg.valid, mopts |-> tok.mopts, margs |-> tok.margs,
          v |-> init_value(cmds, SeededOptions(items, valid))]

----------------------------------------------------------------------------
(* cl::parse: one candidate *)

\* a padding loop that passes over every candidate, wildcard or not, that
\* lacks a token for a required slot
RECURSIVE PadLoopSkip(_, _, _)
PadLoopSkip(cm, i, ma) ==
    IF i > Len(cm.args) THEN [skip |-> FALSE, fatal |-> FALSE, margs |-> ma]
    ELSE IF cm.args[i].required
    THEN [skip |-> TRUE, fatal |-> FALSE, margs |-> Append(ma, <<>>)]
    ELSE PadLoopSkip(cm, i + 1, Append(ma, <<>>))

\* the padding loop: an empty token for every slot left without one, until
\* a required slot is met
RECURSIVE PadLoop(_, _, _)
PadLoop(cm, i, ma) ==
    IF i > Len(cm.args) THEN [skip |-> FALSE, fatal |-> FALSE, margs |-> ma]
    ELSE IF cm.args[i].required
    THEN IF cm.any
         THEN [skip |-> TRUE, fatal |-> FALSE, margs |-> Append(ma, <<>>)]
         ELSE [skip |-> FALSE, fatal |-> TRUE, margs |-> ma]
    ELSE PadLoop(cm, i + 1, Append(ma, <<>>))

\* a rollback of the tokens alone
RollbackTokens(ma, vv, base, cmds, items) == [margs |-> base, v |-> vv]

\* the rollback of a rejected wildcard: the tokens as tokenized, the mapping
\* as pre-seeded
Rollback(ma, vv, base, cmds, items) ==
    [margs |-> base, v |-> init_value(cmds, items)]

RECURSIVE SetItems(_, _, _, _)
SetItems(vv, items, i, tok) ==
    IF i > Len(items) THEN vv
    ELSE SetItems(Put(vv, items[i], Bool(tok = items[i])), items, i + 1, tok)

\* a choice group bound as a whole: every alternative is true iff the token
\* is one of the group
BindOneMember(vv, x, tok) ==
    [k \in DOMAIN vv \cup {x.items[i] : i \in 1..Len(x.items)} |->
        IF \E i \in 1..Len(x.items) : k = x.items[i]
        THEN Bool(contains(x, tok)) ELSE vv[k]]

\* a choice group: every alternative is true iff it is the token
BindOne(vv, x, tok) == SetItems(vv, x.items, 1, tok)

\* a plain positional bound whatever the token
BindParamAlways(vv, x, tok) == Put(vv, x.val, Str(tok))

\* a plain positional: the token as a string unless it is empty
BindParam(vv, x, tok) == IF tok # <<>> THEN Put(vv, x.val, Str(tok)) ELSE vv

\* the slot loop
RECURSIVE BindArgs(_, _, _, _)
BindArgs(cm, i, ma, vv) ==
    IF i > Len(cm.args) THEN [ok |-> TRUE, v |-> vv]
    ELSE IF cm.args[i].kind = "one"
    THEN IF ma[i] # <<>> /\ ~contains(cm.args[i], ma[i])
         THEN [ok |-> FALSE, v |-> vv]
         ELSE BindArgs(cm, i + 1, ma, BindOne(vv, cm.args[i], ma[i]))
    ELSE BindArgs(cm, i + 1, ma, BindParam(vv, cm.args[i], ma[i]))

\* mopts[k] as an rvalue: a missing key is inserted with an empty value
Touch(mo, k) == IF k \in DOMAIN mo THEN mo ELSE Put(mo, k, <<>>)

\* the value bound for a value option: mopts is read at the name the command
\* wrote (arg.val)
OptValue(ref, o, mo) == Touch(mo, ref.val)[ref.val]

\* the option loop
RECURSIVE BindOpts(_, _, _, _, _)
BindOpts(cm, j, mo, vv, items) ==
    IF j > Len(cm.options) THEN [res |-> "ok", v |-> vv, mopts |-> mo]
    ELSE LET ref == cm.options[j]
             o == get_option(ref.val, items)
         IN IF o = None THEN [res |-> "abort", v |-> vv, mopts |-> mo]
            ELSE IF o.name \in DOMAIN mo
            THEN IF o.flag
                 THEN BindOpts(cm, j + 1, mo, Put(vv, o.name, Bool(TRUE)), items)
                 ELSE BindOpts(cm, j + 1, Touch(mo, ref.val),
                               Put(vv, o.name, Str(OptValue(ref, o, mo))), items)
            ELSE IF ref.required
            THEN [res |-> "missing", v |-> vv, mopts |-> mo]
            ELSE BindOpts(cm, j + 1, mo, vv, items)

\* a candidate filter that lets only the typed name through
IsCandidateExact(cm, c) == cm.name = c

\* the filter of the candidate loop: a wildcard, or the command of the typed
\* name
IsCandidate(cm, c) == ~(~cm.any /\ cm.name # c)

\* the body of the candidate loop for command cm and typed name c
Candidate(cm, c, ma, base, vv, mo, cmds, items, hoe) ==
    LET same == [v |-> vv, margs |-> ma, mopts |-> mo] IN
    IF ~IsCandidate(cm, c)
    THEN [kind |-> "continue", code |-> 0, err |-> "none"] @@ same
    ELSE IF Len(ma) > Len(cm.args)
    THEN [kind |-> "exit", code |-> HelpExitCode(cmds, items, hoe),
          err |-> "too many arguments"] @@ same
    ELSE
    LET v1 == Put(vv, cm.name, Str(c))
        pad == PadLoop(cm, Len(ma) + 1, ma)
    IN
    IF pad.fatal
    THEN [kind |-> "exit", code |-> ErrorExitCode(cmds, items, hoe),
          err |-> "Missing required argument",
          v |-> v1, margs |-> pad.margs, mopts |-> mo]
    ELSE IF pad.skip
    THEN LET rb == Rollback(pad.margs, v1, base, cmds, items) IN
         [kind |-> "skip", code |-> 0, err |-> "none",
          v |-> rb.v, margs |-> rb.margs, mopts |-> mo]
    ELSE
    LET ba == BindArgs(cm, 1, pad.margs, v1) IN
    IF ~ba.ok
    THEN [kind |-> "exit", code |-> ErrorExitCode(cmds, items, hoe),
          err |-> "Invalid argument",
          v |-> ba.v, margs |-> pad.margs, mopts |-> mo]
    ELSE
    LET bo == BindOpts(cm, 1, mo, ba.v, items) IN
    IF bo.res = "abort"
    THEN [kind |-> "exit", code |-> 3, err |-> "Unreachable code detected",
          v |-> bo.v, margs |-> pad.margs, mopts |-> bo.mopts]
    ELSE IF bo.res = "missing"
    THEN [kind |-> "exit", code |-> ErrorExitCode(cmds, items, hoe),
          err |-> "Missing required option",
          v |-> bo.v, margs |-> pad.margs, mopts |-> bo.mopts]
    ELSE [kind |-> "return", code |-> 0, err |-> "none",
          v |-> bo.v, margs |-> pad.margs, mopts |-> bo.mopts]

----------------------------------------------------------------------------
(* Inputs: the options, commands and tokens the registrations and parses   *)
(* are drawn from.  Command names, slot names, choice alternatives and     *)
(* option names are kept apart, as they are in src/test/tests.cpp.         *)

SeqUpTo(S, n) == UNION {[1..k -> S] : k \in 0..n}

\* a flag with a two-character short name
O1 == Opt(<<"o", "1">>, <<"o", "p", "1">>, TRUE)
\* a value option
O2 == Opt(<<"o", "2">>, <<"o", "p", "2">>, FALSE)
\* a flag with a one-character short name
O3 == Opt(<<"f">>, <<"f", "o">>, TRUE)
\* options without a short name
O4 == Opt(<<>>, <<"n", "a">>, TRUE)
O5 == Opt(<<>>, <<"n", "b">>, FALSE)
\* the short name of O1 again, under another full name
O6 == Opt(<<"o", "1">>, <<"q", "q">>, TRUE)
\* short name and full name alike
O7 == Opt(<<"s", "s">>, <<"s", "s">>, TRUE)
\* the short name of the implicit help option
O8 == Opt(<<"h">>, <<"h", "x">>, TRUE)
\* no full name
O9 == Opt(<<"e", "e">>, <<>>, TRUE)

OptUniverse == {O1, O2, O4, O5, O6, O7, O8, O9}

N_a == <<"a">>
N_b == <<"b">>
N_p == <<"p">>
N_q == <<"q">>
N_foo == <<"f", "o", "o">>
N_bar == <<"b", "a", "r">>
N_on == <<"o", "n">>
N_off == <<"o", "f", "f">>
N_zz == <<"z", "z">>

\* cmd("c1", "a", *"b"_p) >> handler
K1 == CmdSpec(<<"c", "1">>, FALSE,
              <<Param(N_a, TRUE), Param(N_b, FALSE)>>, TRUE)
\* cmd("c2", one("foo", "bar"), *one("on", "off"))
K2 == CmdSpec(<<"c", "2">>, FALSE,
              <<One(<<N_foo, N_bar>>, TRUE), One(<<N_on, N_off>>, FALSE)>>, FALSE)
\* cmd("c3", *"p"_p, --"op1"_p, *--"op2"_p): options by full name
K3 == CmdSpec(<<"c", "3">>, FALSE,
              <<Param(N_p, FALSE), OptRef(O1.name, TRUE), OptRef(O2.name, FALSE)>>,
              FALSE)
\* cmd("c4", *--"o1"_p, *--"o2"_p): options by short name
K4 == CmdSpec(<<"c", "4">>, FALSE,
              <<OptRef(O1.shortname, FALSE), OptRef(O2.shortname, FALSE)>>, FALSE)
\* cmd("c5", *--"f"_p): an option by its one-character short name
K5 == CmdSpec(<<"c", "5">>, FALSE, <<OptRef(O3.shortname, FALSE)>>, FALSE)
\* cmd("c6", *"a"_p, "b"): a required slot after an optional one
K6 == CmdSpec(<<"c", "6">>, FALSE,
              <<Param(N_a, FALSE), Param(N_b, TRUE)>>, FALSE)
\* cmd("c7", *one("foo", "bar"), one("on", "off"))
K7 == CmdSpec(<<"c", "7">>, FALSE,
              <<One(<<N_foo, N_bar>>, FALSE), One(<<N_on, N_off>>, TRUE)>>, FALSE)
\* cmd("c8", "a", *--"op1"_p, "b"): an option reference between two slots
K8 == CmdSpec(<<"c", "8">>, FALSE,
              <<Param(N_a, TRUE), OptRef(O1.name, FALSE), Param(N_b, TRUE)>>, FALSE)
\* cmd("c9", *"a"_p, *one("on", "off"))
K9 == CmdSpec(<<"c", "9">>, FALSE,
              <<Param(N_a, FALSE), One(<<N_on, N_off>>, FALSE)>>, FALSE)
\* cmd("c10", *"p"_p, *--"op1"_p, *--"op2"_p): optional options by full name
K10 == CmdSpec(<<"c", "1", "0">>, FALSE,
               <<Param(N_p, FALSE), OptRef(O1.name, FALSE), OptRef(O2.name, FALSE)>>,
               FALSE)
\* cmd("w1"_a, "q") >> handler
W1 == CmdSpec(<<"w", "1">>, TRUE, <<Param(N_q, TRUE)>>, TRUE)
\* cmd("w2"_a) >> handler
W2 == CmdSpec(<<"w", "2">>, TRUE, <<>>, TRUE)

T_empty == <<>>
T_o1 == <<"-", "o", "1">>
T_o2 == <<"-", "o", "2">>
T_op2v == <<"-", "-", "o", "p", "2", "=", "o", "n">>
T_op2 == <<"-", "-", "o", "p", "2">>
T_f == <<"-", "f">>

\* the command names a caller types: the exact names registered, and one
\* that is no command's name
TypedNames ==
    {usageItems[i].name : i \in {j \in 1..Len(usageItems) : ~usageItems[j].any}}
        \cup {N_zz}

\* whether the tokenizer may meet an empty token, the one undefined step
HasEmpty(args) == \E i \in 2..Len(args) : args[i] = <<>>

\* the builds to tell apart for this argument vector
Builds(args) == IF HasEmpty(args) THEN BOOLEAN ELSE {FALSE}

Argvs(tokens) ==
    {<<>>, <<StrHelpShort>>, <<StrVersionLong>>}
        \cup {<<c>> \o t : c \in TypedNames, t \in SeqUpTo(tokens, MaxArgs)}

----------------------------------------------------------------------------
(* State machine *)

Init ==
    /\ optItems = <<>>
    /\ optValid = {}
    /\ usageItems = <<>>
    /\ usageCommands = {}
    /\ help_on_exit = TRUE
    /\ pc = "idle"
    /\ argvIn = <<>>
    /\ mopts = EmptyMap
    /\ margs = <<>>
    /\ basemargs = <<>>
    /\ v = EmptyMap
    /\ idx = 0
    /\ rejected = {}
    /\ matched = 0
    /\ invoked = <<>>
    /\ exitCode = 0
    /\ err = "none"
    /\ memo = None

\* between two calls of the library
Ready == pc = "idle"

ForgetParse ==
    /\ argvIn' = <<>>
    /\ mopts' = EmptyMap
    /\ margs' = <<>>
    /\ basemargs' = <<>>
    /\ v' = EmptyMap
    /\ idx' = 0
    /\ rejected' = {}
    /\ matched' = 0
    /\ invoked' = <<>>

Exit(code, e) ==
    /\ pc' = "exit"
    /\ exitCode' = code
    /\ err' = e

\* cl::help_on_exit = b
SetHelpOnExit(b) ==
    /\ Ready
    /\ b # help_on_exit
    /\ help_on_exit' = b
    /\ pc' = "idle"
    /\ UNCHANGED <<regVars, parseVars, exitCode, err, memo>>

\* Options{opts...}: every Opt is constructed (its name must not be empty),
\* the list replaces Options::items, and Options::complete runs
Options(opts, valid) ==
    IF \E i \in 1..Len(opts) : opts[i].name = <<>>
    THEN [ok |-> FALSE, err |-> "Option name is empty", replaced |-> FALSE,
          items |-> <<>>, valid |-> valid, nullprint |-> FALSE]
    ELSE complete(opts, valid) @@ [replaced |-> TRUE]

\* (ub: the build in which fputs of a null pointer ends the process with
\* SIGSEGV instead of printing)
RegisterOptions(opts, ub) ==
    /\ Ready
    /\ \E r \in {Options(opts, optValid)} :
       /\ optItems' = IF r.replaced THEN r.items ELSE optItems
       /\ optValid' = r.valid
       /\ IF r.ok
          THEN pc' = "idle" /\ UNCHANGED <<exitCode, err>>
          ELSE Exit(IF r.nullprint /\ ub THEN 139 ELSE 2, r.err)
    /\ memo' = None
    /\ UNCHANGED <<usageItems, usageCommands, help_on_exit, parseVars>>

\* Usage{cmd(...), ...}
RegisterUsage(specs) ==
    /\ Ready
    /\ Len(usageItems) + Len(specs) <= MaxCmds
    /\ \E b \in {BuildAll(specs, 1, optValid, <<>>)} :
       \E u \in {UsageLoop(b.cmds, 1, usageItems, usageCommands)} :
          IF ~b.ok
          THEN /\ Exit(IF b.help
                       THEN ErrorExitCode(usageItems, optItems, help_on_exit)
                       ELSE 2, b.err)
               /\ UNCHANGED <<usageItems, usageCommands>>
          ELSE /\ usageItems' = u.items
               /\ usageCommands' = u.commands
               /\ IF u.ok
                  THEN pc' = "idle" /\ UNCHANGED <<exitCode, err>>
                  ELSE Exit(2, "Duplicate command")
    /\ memo' = None
    /\ UNCHANGED <<optItems, optValid, help_on_exit, parseVars>>

\* clear_cl() of the tests: the four registries emptied
ClearCl ==
    /\ Ready
    /\ optItems # <<>> \/ usageItems # <<>>
    /\ optItems' = <<>>
    /\ optValid' = {}
    /\ usageItems' = <<>>
    /\ usageCommands' = {}
    /\ pc' = "idle"
    /\ memo' = None
    /\ UNCHANGED <<help_on_exit, parseVars, exitCode, err>>

\* cl::parse(argc, argv) up to the candidate loop
ParseBegin(args, ub) ==
    /\ Ready
    /\ \E r \in {Prologue(args, optItems, optValid, usageItems, help_on_exit, ub)} :
       /\ optItems' = r.items
       /\ optValid' = r.valid
       /\ argvIn' = args
       /\ mopts' = r.mopts
       /\ margs' = r.margs
       /\ basemargs' = r.margs
       /\ v' = r.v
       /\ idx' = IF r.kind = "match" THEN 1 ELSE 0
       /\ IF r.kind = "exit" THEN Exit(r.code, r.err)
          ELSE /\ pc' = IF r.kind = "match" THEN "match" ELSE "done"
               /\ UNCHANGED <<exitCode, err>>
    /\ rejected' = {}
    /\ matched' = 0
    /\ invoked' = <<>>
    /\ memo' = IF memo = None THEN None
               ELSE [memo EXCEPT !.later = IF @ < 2 THEN @ + 1 ELSE @]
    /\ UNCHANGED <<usageItems, usageCommands, help_on_exit>>

\* a handler called for every candidate that was examined, before its
\* checks
EntryCallEarly(cm, r, i, inv) ==
    IF r.kind # "continue" /\ cm.entry THEN Append(inv, <<i, r.v>>) ELSE inv

\* if(cmd.entry) cmd.entry(v), reached by the candidate that returns: the
\* call is recorded with the command's index and the mapping passed
EntryCall(cm, r, i, inv) ==
    IF r.kind = "return" /\ cm.entry THEN Append(inv, <<i, r.v>>) ELSE inv

\* one pass of the candidate loop
TryCandidate ==
    /\ pc = "match"
    /\ idx <= Len(usageItems)
    /\ \E cm \in {usageItems[idx]} :
       \E r \in {Candidate(cm, argvIn[1], margs, basemargs, v, mopts,
                           usageItems, optItems, help_on_exit)} :
          /\ v' = r.v
          /\ margs' = r.margs
          /\ mopts' = r.mopts
          /\ idx' = IF r.kind \in {"continue", "skip"} THEN idx + 1 ELSE idx
          /\ rejected' = IF r.kind = "skip" THEN rejected \cup {idx} ELSE rejected
          /\ matched' = IF r.kind = "return" THEN idx ELSE matched
          /\ invoked' = EntryCall(cm, r, idx, invoked)
          /\ IF r.kind = "exit" THEN Exit(r.code, r.err)
             ELSE /\ pc' = IF r.kind = "return" THEN "done" ELSE "match"
                  /\ UNCHANGED <<exitCode, err>>
    /\ UNCHANGED <<regVars, help_on_exit, argvIn, basemargs, memo>>

\* the candidate loop ran out: print_and_exit("Unknown command")
UnknownCommand ==
    /\ pc = "match"
    /\ idx > Len(usageItems)
    /\ Exit(2, "Unknown command")
    /\ UNCHANGED <<regVars, help_on_exit, parseVars, memo>>

\* the caller lets go of the returned mapping; the locals of the parse are gone
DropResult ==
    /\ pc = "done"
    /\ pc' = "idle"
    /\ ForgetParse
    /\ UNCHANGED <<regVars, help_on_exit, exitCode, err, memo>>

\* history: keep the vector and the mapping of a parse that returned; later
\* counts the parses begun since (0, 1, 2 for two or more)
Remember ==
    /\ pc = "done"
    /\ memo = None
    /\ memo' = [argv |-> argvIn, result |-> v, later |-> 0]
    /\ UNCHANGED <<regVars, help_on_exit, pc, parseVars, exitCode, err>>

----------------------------------------------------------------------------
(* Specifications *)

\* Positionals, choice groups and wildcards, without an Options list: the
\* only options are the implicit help and version.
PosCmds == {K1, K2, K6, K7, K9, W1, W2}
PosTokens == {N_foo, N_on, T_empty, StrHelpLong}

Next ==
    \/ Ready /\ \E b \in BOOLEAN : SetHelpOnExit(b)
    \/ Ready /\ \E specs \in SeqUpTo(PosCmds, MaxCmds) \ {<<>>} : RegisterUsage(specs)
    \/ ClearCl
    \/ Ready /\ \E args \in Argvs(PosTokens) : \E ub \in Builds(args) : ParseBegin(args, ub)
    \/ TryCandidate
    \/ UnknownCommand
    \/ DropResult

Spec == Init /\ [][Next]_vars

\* Options on the command line: one Options list, commands that reference
\* its options by full and by short name.
OptCmds == {K1, K3, K4, K5, W1}
OptTokens == {N_on, T_o1, T_o2, T_op2v, T_op2, T_f}

NextOpt ==
    \/ Ready /\ \E b \in BOOLEAN : SetHelpOnExit(b)
    \/ Ready /\ \E ub \in BOOLEAN : RegisterOptions(<<O1, O2, O3>>, ub)
    \/ Ready /\ \E specs \in SeqUpTo(OptCmds, MaxCmds) \ {<<>>} : RegisterUsage(specs)
    \/ ClearCl
    \/ Ready /\ \E args \in Argvs(OptTokens) : \E ub \in Builds(args) : ParseBegin(args, ub)
    \/ TryCandidate
    \/ UnknownCommand
    \/ DropResult

SpecOpt == Init /\ [][NextOpt]_vars

\* Registration of options: every list of at most MaxOpts options.
NextReg ==
    \/ Ready /\ \E opts \in SeqUpTo(OptUniverse, MaxOpts), ub \in BOOLEAN :
           RegisterOptions(opts, ub)
    \/ ClearCl
    \/ Ready /\ \E args \in {<<>>, <<N_zz>>, <<StrHelpShort>>} : ParseBegin(args, FALSE)
    \/ UnknownCommand
    \/ DropResult

SpecReg == Init /\ [][NextReg]_vars

\* Repeated parses: the history variable memo keeps one earlier parse.
RepCmds == {K1, K3, W1, W2}
RepTokens == {N_foo, T_o1, T_op2v}

NextRepeat ==
    \/ Ready /\ \E ub \in BOOLEAN : RegisterOptions(<<O1, O2, O3>>, ub)
    \/ Ready /\ \E specs \in SeqUpTo(RepCmds, MaxCmds) \ {<<>>} : RegisterUsage(specs)
    \/ ClearCl
    \/ Ready /\ \E args \in Argvs(RepTokens) : \E ub \in Builds(args) : ParseBegin(args, ub)
    \/ TryCandidate
    \/ UnknownCommand
    \/ DropResult
    \/ Remember

SpecRepeat == Init /\ [][NextRepeat]_vars

\* Option tokens moved among the positional tokens: a parse that returned
\* is kept in memo, and the vectors parsed after it are those that hold the
\* same units with the option units in other places.
MoveCmds == {K3, K10}
MoveTokens == {N_foo, T_o1, T_o2, T_op2v}

\* the option a token names, as the tokenizer resolves it
TokenOption(arg) == get_option(OptionsParse(arg).name, optItems)

\* the units of the tokens from args[i] on, as the tokenizer consumes them:
\* a positional token, an option token, or a single-dash value option with
\* the token after it
RECURSIVE Units(_, _)
Units(args, i) ==
    IF i > Len(args) THEN <<>>
    ELSE LET arg == args[i] IN
    IF arg # <<>> /\ Head(arg) = "-"
    THEN LET opt == TokenOption(arg) IN
         IF opt # None /\ ~opt.flag /\ is_short(arg) /\ i + 1 <= Len(args)
         THEN <<[option |-> TRUE, tokens |-> <<arg, args[i + 1]>>]>>
                  \o Units(args, i + 2)
         ELSE <<[option |-> TRUE, tokens |-> <<arg>>]>> \o Units(args, i + 1)
    ELSE <<[option |-> FALSE, tokens |-> <<arg>>]>> \o Units(args, i + 1)

IsPositionalUnit(u) == ~u.option

\* how often unit u occurs in the sequence us
Count(us, u) == Cardinality({i \in 1..Len(us) : us[i] = u})

\* b is a with option units moved to other places after the command name:
\* the same command name, the same positional tokens in the same order, the
\* same option units, each as often
Moved(a, b) ==
    /\ a # <<>> /\ b # <<>>
    /\ a[1] = b[1]
    /\ Len(a) = Len(b)
    /\ \E ua \in {Units(a, 2)} : \E ub \in {Units(b, 2)} :
          /\ SelectSeq(ua, IsPositionalUnit) = SelectSeq(ub, IsPositionalUnit)
          /\ \A i \in 1..Len(ua) :
                 ua[i].option => Count(ua, ua[i]) = Count(ub, ua[i])
          /\ \A i \in 1..Len(ub) :
                 ub[i].option => Count(ua, ub[i]) = Count(ub, ub[i])

\* vectors of up to MaxArgs + 1 tokens after the command name
MoveArgvs ==
    {<<c>> \o t : c \in TypedNames, t \in SeqUpTo(MoveTokens, MaxArgs + 1)}

NextMove ==
    \/ Ready /\ RegisterOptions(<<O1, O2>>, FALSE)
    \/ Ready /\ \E specs \in SeqUpTo(MoveCmds, MaxCmds) \ {<<>>} : RegisterUsage(specs)
    \/ ClearCl
    \/ Ready /\ \E args \in MoveArgvs :
           /\ IF memo = None THEN TRUE ELSE Moved(memo.argv, args)
           /\ ParseBegin(args, FALSE)
    \/ TryCandidate
    \/ UnknownCommand
    \/ DropResult
    \/ Remember

SpecMove == Init /\ [][NextMove]_vars

----------------------------------------------------------------------------
(* Properties *)

\* the command a returned parse bound
MatchedCmd == usageItems[matched]

\* parse returned a mapping with a command matched
Returned == pc = "done" /\ matched # 0

\* t1..tk: the tokens after the command name
Tokens == Tail(argvIn)

\* no token is an option token
Plain(tokens) ==
    \A i \in 1..Len(tokens) : tokens[i] = <<>> \/ Head(tokens[i]) # "-"

\* the keys a command binds: its name, its positionals, its choice
\* alternatives and the full names of the options it references
OwnKeys(cm) ==
    {cm.name}
        \cup {cm.args[i].val : i \in {j \in 1..Len(cm.args) : cm.args[j].kind = "param"}}
        \cup UNION {{cm.args[i].items[n] : n \in 1..Len(cm.args[i].items)} :
                        i \in {j \in 1..Len(cm.args) : cm.args[j].kind = "one"}}
        \cup {get_option(cm.options[j].val, optItems).name :
                  j \in {n \in 1..Len(cm.options) :
                             get_option(cm.options[n].val, optItems) # None}}

\* the positional bindings of command cm for the tokens t; an empty token
\* counts as a String when emptyAsString, as no token otherwise
Positionals(cm, t, emptyAsString) ==
    /\ v[cm.name] = Str(argvIn[1])
    /\ \A i \in 1..Len(cm.args) :
           cm.args[i].kind = "param" =>
               v[cm.args[i].val] =
                   IF i <= Len(t) /\ (emptyAsString \/ t[i] # <<>>)
                   THEN Str(t[i]) ELSE Null

\* C1 as stated: for an exact-named command, parsing [name, t1..tk] with k
\* between the number of required slots and the number of slots returns a
\* mapping with the i-th plain positional the String ti for every i <= k,
\* every unsupplied trailing optional positional Null, and the command's key
\* the String name.
C1_AsStated ==
    pc = "done" /\ argvIn # <<>> /\ Plain(Tokens) =>
        \A c \in 1..Len(usageItems) :
            LET cm == usageItems[c] IN
            (/\ ~cm.any
             /\ cm.name = argvIn[1]
             /\ cm.mincount <= Len(Tokens)
             /\ Len(Tokens) <= Len(cm.args))
            => Positionals(cm, Tokens, TRUE)

\* C1, amended: when parsing [name, t1..tk] returns with the exact-named
\* command as the matched command, k is between the number of required
\* slots and the number of slots, the i-th plain positional is the String ti
\* for every i <= k with ti not empty, it is Null for an empty ti and for
\* every unsupplied trailing optional positional, and the command's key is
\* the String name.
C1_Positionals ==
    Returned /\ ~MatchedCmd.any /\ Plain(Tokens) =>
        /\ MatchedCmd.name = argvIn[1]
        /\ MatchedCmd.mincount <= Len(Tokens)
        /\ Len(Tokens) <= Len(MatchedCmd.args)
        /\ Positionals(MatchedCmd, Tokens, FALSE)

\* c1 foo: a is "foo", the trailing optional b is Null, c1 is "c1"
C1_Witness ==
    /\ Returned
    /\ argvIn = <<K1.name, N_foo>>
    /\ MatchedCmd.name = K1.name
    /\ v[N_a] = Str(N_foo)
    /\ v[N_b] = Null
    /\ v[K1.name] = Str(K1.name)

\* C2: after a successful parse every alternative of every choice group of
\* the matched command is a Bool that is true iff the alternative is the
\* token supplied for the group's slot; at most one alternative of a group
\* is true, and all are false when the slot received no token.
C2_Choices ==
    Returned =>
        \A i \in 1..Len(MatchedCmd.args) :
            LET x == MatchedCmd.args[i]
                alts == {x.items[n] : n \in 1..Len(x.items)}
                given == i <= Len(basemargs)
            IN x.kind = "one" =>
                /\ \A a \in alts :
                       /\ a \in DOMAIN v
                       /\ v[a] = Bool(given /\ basemargs[i] = a)
                /\ Cardinality({a \in alts : v[a] = Bool(TRUE)}) <= 1
                /\ ~given => \A a \in alts : v[a] = Bool(FALSE)

\* c2 foo: foo is true, bar is false, and the optional group {on, off},
\* which received no token, is all false
C2_Witness ==
    /\ Returned
    /\ argvIn = <<K2.name, N_foo>>
    /\ v[N_foo] = Bool(TRUE)
    /\ v[N_bar] = Bool(FALSE)
    /\ v[N_on] = Bool(FALSE)
    /\ v[N_off] = Bool(FALSE)

\* C3 as stated: for every option the matched command references, by full
\* or by short name, if the option appears on the command line (the
\* tokenizer bound a value to its full name) the returned mapping holds
\* under the full name Bool true for a flag and the supplied value as a
\* String for a value option.
C3_Options ==
    Returned =>
        \A j \in 1..Len(MatchedCmd.options) :
            LET o == get_option(MatchedCmd.options[j].val, optItems) IN
            (o # None /\ o.name \in DOMAIN mopts) =>
                v[o.name] = IF o.flag THEN Bool(TRUE) ELSE Str(mopts[o.name])

\* C4: when a wildcard is rejected for a required slot without a token,
\* nothing it did survives: the next candidate starts from the positional
\* tokens as tokenized and from the pre-seeded mapping, and in the mapping
\* returned every key that belongs to a rejected wildcard and not to the
\* matched command holds its default.
C4_Rollback ==
    /\ pc = "match" =>
           /\ margs = basemargs
           /\ v = init_value(usageItems, optItems)
    /\ Returned =>
           \A r \in rejected :
               LET w == usageItems[r]
                   own == OwnKeys(MatchedCmd)
               IN /\ w.name \notin own => v[w.name] = Bool(FALSE)
                  /\ \A i \in 1..Len(w.args) :
                         IF w.args[i].kind = "param"
                         THEN w.args[i].val \notin own => v[w.args[i].val] = Null
                         ELSE \A n \in 1..Len(w.args[i].items) :
                                  w.args[i].items[n] \notin own =>
                                      v[w.args[i].items[n]] = Bool(FALSE)

\* zz: the wildcard w1, which requires q, was rejected and w2 matched
C4_Witness ==
    /\ Returned
    /\ rejected # {}
    /\ \E r \in rejected : usageItems[r].name = W1.name
    /\ MatchedCmd.name = W2.name
    /\ v[W1.name] = Bool(FALSE)
    /\ v[N_q] = Null

\* the diagnostics of the user input errors
UserInputErrors ==
    {"Invalid option", "Invalid option format", "Invalid short option format",
     "Missing required argument", "Missing required option",
     "Invalid argument", "Unknown command", "too many arguments"}

\* C5 as stated: every user input error (an unresolvable option token, a
\* malformed value option, a missing required positional or option, a token
\* outside a choice group, an unknown command, too many positional tokens)
\* terminates the process with exit code 2.
C5_UserErrors ==
    pc = "exit" /\ err \in UserInputErrors => exitCode = 2

\* the diagnostics of the schema errors
SchemaErrors ==
    {"Option name is empty", "Duplicate Option", "Duplicate Short Option",
     "Unknown option", "Positional cannot be required", "Duplicate command"}

\* C7: in every registered command no required slot comes after an optional
\* one; appending a required slot after an optional one terminates at
\* registration, before any parse has begun.
C7_RequiredFirst ==
    /\ \A c \in 1..Len(usageItems) :
           LET cm == usageItems[c] IN
           /\ \A i, j \in 1..Len(cm.args) :
                  (i < j /\ ~cm.args[i].required) => ~cm.args[j].required
           /\ cm.mincount =
                  Cardinality({i \in 1..Len(cm.args) : cm.args[i].required})
    /\ err = "Positional cannot be required" =>
           pc = "exit" /\ argvIn = <<>> /\ idx = 0

\* a parse is running against a registry that holds c9, whose optional
\* positional is followed by an optional choice group
C7_Witness ==
    /\ pc = "match"
    /\ \E c \in 1..Len(usageItems) :
           /\ usageItems[c].name = K9.name
           /\ Len(usageItems[c].args) = 2
           /\ ~usageItems[c].args[1].required

\* the two names of the i-th registered option
Names(i) == {optItems[i].name, optItems[i].shortname}

\* two registered options share a name
Collision ==
    \E i, j \in 1..Len(optItems) : i < j /\ Names(i) \cap Names(j) # {}

\* C6: registering an option whose full or short name equals the full or
\* short name of an option already registered (help/h and version/v
\* included) terminates with a schema error during registration, so in
\* every registry a parse can run against the names of any two options are
\* distinct.
C6_UniqueNames ==
    /\ pc # "exit" => ~Collision
    /\ Collision =>
           /\ pc = "exit"
           /\ err \in {"Duplicate Option", "Duplicate Short Option"}
           /\ argvIn = <<>>
           /\ idx = 0

\* Options{o1/op1, o1/qq}: the second option repeats the short name of the
\* first and the registration terminated
C6_Witness ==
    /\ pc = "exit"
    /\ optItems = <<OptHelp, OptVersion, O1, O6>>
    /\ err = "Duplicate Short Option"
    /\ exitCode = 2

\* the default a registered option's key is seeded with
OptionDefault(o) == IF o.flag THEN Bool(FALSE) ELSE Null

\* C8: a mapping returned by a successful parse has a key for every
\* registered command name, positional name, choice alternative and option
\* full name, and every key that does not belong to the matched command
\* holds its default, also the key of an option that was given on the
\* command line: Bool false for command names, choice alternatives and
\* flags, Null for positionals and value options.
C8_Frame ==
    Returned =>
        LET own == OwnKeys(MatchedCmd) IN
        /\ \A c \in 1..Len(usageItems) :
               LET cm == usageItems[c] IN
               /\ cm.name \in DOMAIN v
               /\ cm.name \notin own => v[cm.name] = Bool(FALSE)
               /\ \A i \in 1..Len(cm.args) :
                      IF cm.args[i].kind = "param"
                      THEN /\ cm.args[i].val \in DOMAIN v
                           /\ cm.args[i].val \notin own => v[cm.args[i].val] = Null
                      ELSE \A n \in 1..Len(cm.args[i].items) :
                               /\ cm.args[i].items[n] \in DOMAIN v
                               /\ cm.args[i].items[n] \notin own =>
                                      v[cm.args[i].items[n]] = Bool(FALSE)
        /\ \A k \in 1..Len(optItems) :
               /\ optItems[k].name \in DOMAIN v
               /\ optItems[k].name \notin own =>
                      v[optItems[k].name] = OptionDefault(optItems[k])

\* c1 on -o1 with c1 and c3 registered: op1 was given, c1 does not reference
\* it, and it is false; the keys of c3 hold their defaults
C8_Witness ==
    /\ Returned
    /\ argvIn = <<K1.name, N_on, T_o1>>
    /\ MatchedCmd.name = K1.name
    /\ O1.name \in DOMAIN mopts
    /\ v[O1.name] = Bool(FALSE)
    /\ \E c \in 1..Len(usageItems) : usageItems[c].name = K3.name
    /\ v[K3.name] = Bool(FALSE)
    /\ v[N_p] = Null

\* C9 as stated: when every registration completed, no parse ends in the
\* unreachable-code exit, exit code 3.
C9_NoUnreachable ==
    pc = "exit" /\ err \notin SchemaErrors => exitCode # 3

\* C10: parsing the same argument vector again against the same registry,
\* with other parses in between, returns an equal mapping.
C10_Repeatable ==
    (/\ pc = "done"
     /\ memo # None
     /\ memo.later >= 1
     /\ memo.argv = argvIn)
    => v = memo.result

\* c1 foo returned, another parse ran, and c1 foo returned again
C10_Witness ==
    /\ Returned
    /\ memo # None
    /\ memo.later >= 2
    /\ memo.argv = argvIn
    /\ argvIn = <<K1.name, N_foo>>
    /\ v[N_a] = Str(N_foo)

\* the candidates of the running parse: the command of the typed name and
\* every wildcard
Candidates ==
    {c \in 1..Len(usageItems) :
         usageItems[c].any \/ usageItems[c].name = argvIn[1]}

\* C11 as stated: the too-many-arguments termination is reached only when
\* the positional tokens outnumber the slots of every candidate; a candidate
\* with fewer slots than tokens is otherwise abandoned and a later candidate
\* with enough slots is still matched.
C11_TooManyOnlyForAll ==
    pc = "exit" /\ err = "too many arguments" =>
        \A c \in Candidates : Len(basemargs) > Len(usageItems[c].args)

\* a wildcard candidate that lacks a token for a required slot: the one
\* candidate the loop passes over
PassedOver(c) ==
    /\ usageItems[c].any
    /\ Len(basemargs) <= Len(usageItems[c].args)
    /\ Len(basemargs) < usageItems[c].mincount

\* the candidates that are not passed over
Deciding == {c \in Candidates : ~PassedOver(c)}

\* C12: candidates are tried in registration order and the command bound
\* and returned is the first candidate that passes all checks; a wildcard
\* registered before the command of the typed name is the one selected when
\* its slots fit the tokens.
C12_FirstCandidate ==
    /\ Returned =>
           /\ matched \in Deciding
           /\ \A c \in Deciding : matched <= c
           /\ rejected = {c \in Candidates : c < matched}
           /\ v[MatchedCmd.name] = Str(argvIn[1])
    /\ (pc = "exit" /\ idx >= 1 /\ idx <= Len(usageItems)) =>
           /\ idx \in Deciding
           /\ \A c \in Deciding : idx <= c
    /\ (pc = "exit" /\ err = "Unknown command") => Deciding = {}

\* c1 foo with the wildcard w1 registered before c1: w1 is the command
\* returned, q is "foo" and the keys of c1 hold their defaults
C12_Witness ==
    /\ Returned
    /\ argvIn = <<K1.name, N_foo>>
    /\ Len(usageItems) = 2
    /\ usageItems[1].name = W1.name
    /\ usageItems[2].name = K1.name
    /\ matched = 1
    /\ v[W1.name] = Str(K1.name)
    /\ v[N_q] = Str(N_foo)
    /\ v[K1.name] = Bool(FALSE)
    /\ v[N_a] = Null

\* the command of the typed name has fewer positional tokens than required
\* slots
Lacking(c) ==
    /\ ~usageItems[c].any
    /\ usageItems[c].name = argvIn[1]
    /\ Len(basemargs) < usageItems[c].mincount

\* the candidate loop went past command c
Past(c) ==
    \/ pc = "match" /\ idx > c
    \/ pc = "done" /\ matched > c
    \/ pc = "exit" /\ idx > c

\* C13: a candidate of the typed name reached with fewer positional tokens
\* than required slots terminates the parse at once with the
\* missing-required-argument error, and no later candidate is tried, not
\* even a wildcard that would accept the input; a wildcard in that situation
\* is passed over and the next candidate is tried.
C13_MissingRequired ==
    /\ (pc = "exit" /\ err = "Missing required argument") =>
           /\ idx \in 1..Len(usageItems)
           /\ Lacking(idx)
           /\ matched = 0
           /\ invoked = <<>>
    /\ \A c \in 1..Len(usageItems) :
           (argvIn # <<>> /\ Lacking(c)) =>
               /\ ~Past(c)
               /\ matched # c
               /\ (pc = "exit" /\ idx = c) => err = "Missing required argument"
    /\ \A c \in 1..Len(usageItems) :
           (argvIn # <<>> /\ PassedOver(c)) =>
               /\ matched # c
               /\ ~(pc = "exit" /\ idx = c)
               /\ Past(c) => c \in rejected

\* c1 without a token, with the wildcard w2 registered after c1: the parse
\* ended at c1 although w2 accepts the input
C13_Witness ==
    /\ pc = "exit"
    /\ err = "Missing required argument"
    /\ argvIn = <<K1.name>>
    /\ Len(usageItems) = 2
    /\ usageItems[1].name = K1.name
    /\ usageItems[2].name = W2.name
    /\ idx = 1

\* the names a list of options supplies: every full name, and every short
\* name that was not left out, each with the index of its option
Supplied(items) ==
    {<<i, items[i].name>> : i \in 1..Len(items)}
        \cup {<<i, items[i].shortname>> :
                  i \in {j \in 1..Len(items) : items[j].shortname # <<>>}}

\* a completed list (help and version first) whose full names are not empty
\* and whose supplied names are all distinct
CleanBatch(items) ==
    /\ Len(items) >= 2
    /\ items[1] = OptHelp
    /\ items[2] = OptVersion
    /\ \A i \in 1..Len(items) :
           items[i].name # <<>> /\ items[i].name # items[i].shortname
    /\ \A x, y \in Supplied(items) : x[1] # y[1] => x[2] # y[2]

\* C14 as stated: option registration terminates only for an empty full
\* name or a name collision; a batch registered on a freshly reset registry
\* whose full names are not empty and whose full names and supplied short
\* names are distinct from each other and from help, h, version and v
\* registers, however many of its options leave the short name out.
C14_CleanBatchRegisters ==
    [][(/\ pc = "idle"
        /\ optItems = <<>>
        /\ optValid = {}
        /\ argvIn' = <<>>
        /\ optItems' # <<>>
        /\ CleanBatch(optItems'))
       => pc' = "idle"]_vars

\* C15: during one parse at most one handler is invoked: the matched
\* command's, once, with the command key and all bindings in the mapping it
\* receives, which is the mapping then returned; the handler of a candidate
\* that was passed over is never invoked, and none is when the parse
\* terminates.
C15_OneHandler ==
    /\ Len(invoked) <= 1
    /\ invoked # <<>> =>
           /\ Returned
           /\ MatchedCmd.entry
           /\ matched \notin rejected
           /\ invoked[1] = <<matched, v>>
           /\ invoked[1][2][MatchedCmd.name] = Str(argvIn[1])
    /\ (Returned /\ MatchedCmd.entry) => Len(invoked) = 1
    /\ pc \in {"exit", "match"} => invoked = <<>>

\* zz with the wildcards w1 and w2, both with a handler: w1 was passed over,
\* and the one call is that of w2 with the mapping returned
C15_Witness ==
    /\ Returned
    /\ argvIn = <<N_zz>>
    /\ rejected = {1}
    /\ usageItems[1].entry
    /\ matched = 2
    /\ invoked = <<<<2, v>>>>
    /\ v[W2.name] = Str(N_zz)

\* the option an option unit names
UnitOption(u) == TokenOption(u.tokens[1])

\* the value an option unit supplies: the token after a single-dash value
\* option, the text after "=" otherwise
UnitValue(u) ==
    IF Len(u.tokens) = 2 THEN u.tokens[2] ELSE OptionsParse(u.tokens[1]).val

\* the value the last unit that names option o supplies, if any names it
LastValue(us, o) ==
    LET at == {i \in 1..Len(us) : us[i].option /\ UnitOption(us[i]) = o} IN
    IF at = {} THEN None
    ELSE UnitValue(us[CHOOSE i \in at : \A j \in at : j <= i])

\* every value option receives the same value from its last occurrence in a
\* and in b
SameLastValues(a, b) ==
    \A k \in 1..Len(optItems) :
        ~optItems[k].flag =>
            LastValue(Units(a, 2), optItems[k]) = LastValue(Units(b, 2), optItems[k])

\* a parse of the kept vector with option units moved has ended
MovedParseEnded ==
    /\ pc \in {"done", "exit"}
    /\ memo # None
    /\ memo.later >= 1
    /\ Moved(memo.argv, argvIn)

\* C16 as stated: the result of a successful parse does not depend on where
\* the option tokens sit: with a flag token, a --name=value token or a
\* single-dash value option and its value moved to another place after the
\* command name, the positional tokens in the same order, the parse again
\* returns, with an equal mapping.
C16_AsStated ==
    MovedParseEnded => pc = "done" /\ v = memo.result

\* C16, amended: the same, provided every value option that is given more
\* than once receives the same value from its last occurrence before and
\* after the move (the last occurrence is the one that binds).
C16_MovedOptions ==
    (MovedParseEnded /\ SameLastValues(memo.argv, argvIn)) =>
        pc = "done" /\ v = memo.result

\* c10 foo -o2 foo returned, then c10 -o2 foo foo: the value option and its
\* value moved in front of the positional token, and the mappings are equal
C16_Witness ==
    /\ Returned
    /\ memo # None
    /\ memo.later >= 1
    /\ memo.argv = <<K10.name, N_foo, T_o2, N_foo>>
    /\ argvIn = <<K10.name, T_o2, N_foo, N_foo>>
    /\ v = memo.result
    /\ v[N_p] = Str(N_foo)
    /\ v[O2.name] = Str(N_foo)

====
